---- MODULE Spec2Model ----
(***************************************************************************)
(* A model of the pccxl KuCoin perpetual-futures client:                   *)
(*   src/src/pccxl/providers/kucoin/clients/perp.py   (Client)             *)
(*   src/src/pccxl/providers/kucoin/validations.py    (validators)         *)
(*   src/src/pccxl/common/utils.py                    (SIDE_MAPPING, uuid) *)
(*                                                                         *)
(* Python values are tagged tuples, so that values of different Python     *)
(* types can be compared (None, str, bool, number, dict).  Numbers are     *)
(* exact rationals <<"num", n, d>> with d > 0.                             *)
(***************************************************************************)
EXTENDS Integers, Sequences, FiniteSets, TLC

VARIABLES
    pc,                 \* position of the running call
    self,               \* the Client instance the call runs on
    args,               \* the arguments of the public call
    order,              \* the order dict of _create_order
    symbol_info,        \* _create_order's local symbol_info
    new_order_response, \* _create_order's local new_order_response
    wire,               \* the HTTP requests handed to requests.request, in order
    replies,            \* per request of wire: how _handle_response ended
    result,             \* what the call returned or raised
    DEFAULT_HEADERS,    \* the class attribute Client.DEFAULT_HEADERS
    now,                \* time.time() in milliseconds
    uuid_count,         \* number of uuid4 values drawn so far
    response            \* the response object given to _handle_response

vars == <<pc, self, args, order, symbol_info, new_order_response, wire,
          replies, result, DEFAULT_HEADERS, now, uuid_count, response>>

----------------------------------------------------------------------------
(* Bounds of the model *)

MaxAmountNum == 4
MaxMultNum == 3
MaxRequests == 2

----------------------------------------------------------------------------
(* Python values *)

None == <<"none">>
Str(s) == <<"str", s>>
Bool(b) == <<"bool", b>>
Num(n, d) == <<"num", n, d>>
Dict(f) == <<"dict", f>>

\* Python truthiness: bool(v)
Truthy(v) ==
    CASE v[1] = "none" -> FALSE
      [] v[1] = "str"  -> v[2] # ""
      [] v[1] = "bool" -> v[2]
      [] v[1] = "num"  -> v[2] # 0
      [] OTHER         -> TRUE

\* x in tup, for a Python tuple
In(x, tup) == \E i \in DOMAIN tup : tup[i] = x

\* d.get(k) on a dict held as a function
Get(d, k) == IF k \in DOMAIN d THEN d[k] ELSE None

\* d[k] = v on a dict held as a function
Put(d, k, v) == [x \in DOMAIN d \cup {k} |-> IF x = k THEN v ELSE d[x]]

\* str.lower() and str.upper() on the strings of the model
Lower(v) ==
    CASE v = Str("BUY")  -> Str("buy")
      [] v = Str("SELL") -> Str("sell")
      [] v = Str("HOLD") -> Str("hold")
      [] OTHER           -> v

Upper(v) ==
    CASE v = Str("xbtusdtm") -> Str("XBTUSDTM")
      [] OTHER               -> v

(* Exact rational arithmetic on <<"num", n, d>> *)
RatLess(a, b) == a[2] * b[3] < b[2] * a[3]
RatGeq(a, b) == ~RatLess(a, b)
RatMul(a, b) == Num(a[2] * b[2], a[3] * b[3])
RatInv(a) == IF a[2] > 0 THEN Num(a[3], a[2]) ELSE Num(-a[3], -a[2])
\* floor of n/d for d > 0 (Integers' \div rounds toward minus infinity)
RatFloor(a) == a[2] \div a[3]
\* int(x): truncation toward zero
RatTrunc(a) == IF a[2] >= 0 THEN a[2] \div a[3] ELSE -((-a[2]) \div a[3])

----------------------------------------------------------------------------
(* common/utils.py *)

SIDE_MAPPING == [buy |-> Str("sell"), sell |-> Str("buy")]

\* flat_uuid(): the n-th uuid4 drawn, as a dash-free hex string
flat_uuid(n) == <<"str", "uuid4hex", n>>

----------------------------------------------------------------------------
(* validations.py: each operator is NoError or the exception raised *)

NoError == [kind |-> "ok", exc |-> "", value |-> None]

OrderParameterValidationException(msg) ==
    [kind |-> "raise", exc |-> "OrderParameterValidationException",
     value |-> Str(msg)]

VALID_SIDE == <<Str("buy"), Str("sell")>>
VALID_STOP == <<Str("down"), Str("up")>>
VALID_STOP_PRICE_TYPE == <<Str("TP"), Str("MP"), Str("IP")>>
VALID_TIME_IN_FORCE == <<Str("GTC"), Str("IOC")>>

validate_side(side) ==
    IF ~In(side, VALID_SIDE)
    THEN OrderParameterValidationException("side")
    ELSE NoError

validate_stop(stop, stop_price, stop_price_type) ==
    IF ~Truthy(stop) THEN NoError
    ELSE IF ~In(stop, VALID_STOP)
    THEN OrderParameterValidationException("stop")
    ELSE IF ~In(stop_price_type, VALID_STOP_PRICE_TYPE)
    THEN OrderParameterValidationException("stop_price_type")
    ELSE IF ~Truthy(stop_price)
    THEN OrderParameterValidationException("stop_price")
    ELSE NoError

validate_stop_loss_take_profit(stop, stop_loss, take_profit) ==
    IF Truthy(stop) /\ (Truthy(stop_loss) \/ Truthy(take_profit))
    THEN OrderParameterValidationException("stop_loss_take_profit")
    ELSE NoError

validate_time_in_force(time_in_force) ==
    IF ~Truthy(time_in_force) THEN NoError
    ELSE IF ~In(time_in_force, VALID_TIME_IN_FORCE)
    THEN OrderParameterValidationException("time_in_force")
    ELSE NoError

\* def validate_post_only(time_in_force, post_only): the first parameter is
\* time_in_force, the second post_only
validate_post_only(time_in_force, post_only) ==
    IF Truthy(post_only) /\ time_in_force # VALID_TIME_IN_FORCE[1]
    THEN OrderParameterValidationException("post_only")
    ELSE NoError

validate_hidden_and_iceberg(hidden, iceberg) ==
    IF Truthy(hidden) /\ Truthy(iceberg)
    THEN OrderParameterValidationException("hidden_and_iceberg")
    ELSE NoError

validate_iceberg(iceberg, visible_size) ==
    IF Truthy(iceberg) /\ ~Truthy(visible_size)
    THEN OrderParameterValidationException("iceberg")
    ELSE NoError

\* validate_amount_size with the check left out
validate_amount_size_never(amount, size) == NoError

validate_amount_size(amount, size) ==
    IF Truthy(amount) /\ Truthy(size)
    THEN OrderParameterValidationException("amount_size")
    ELSE NoError

\* the first exception a sequence of checks raises, NoError when none does
FirstRaised(checks) ==
    IF \E i \in DOMAIN checks : checks[i].kind = "raise"
    THEN checks[CHOOSE i \in DOMAIN checks :
                  /\ checks[i].kind = "raise"
                  /\ \A j \in 1..(i - 1) : checks[j].kind # "raise"]
    ELSE NoError

----------------------------------------------------------------------------
(* clients/perp.py: signer, paths, headers *)

API_URL == "https://api-futures.kucoin.com"
API_V1 == "v1"

\* the class attribute as the class statement leaves it
DEFAULT_HEADERS_0 ==
    [x \in {"accept", "content-type"} |-> Str("application/json")]

\* Client.__init__
Client(api_key, api_secret, passphrase) ==
    [API_KEY |-> api_key, API_SECRET |-> api_secret,
     API_PASSPHRASE |-> passphrase]

\* json.dumps(obj) and the parse of a response text (ValueError: not "json")
JsonDumps(obj) == <<"json", obj>>
Garbage == <<"garbage">>

\* base64.b64encode(hmac.new(key, msg, sha256).digest())
b64_hmac_sha256(key, msg) == <<"b64", <<"hmac-sha256", key, msg>>>>

generate_signature(slf, nonce, method, api_path, data) ==
    b64_hmac_sha256(slf.API_SECRET, <<nonce, method, api_path, data>>)

generate_passphrase(slf) ==
    b64_hmac_sha256(slf.API_SECRET, slf.API_PASSPHRASE)

\* api_version "" stands for None
create_path(path, api_version) ==
    "/api/" \o (IF api_version = "" THEN API_V1 ELSE api_version)
            \o "/" \o path

create_url(path) == API_URL \o path

\* the dict headers after lines 120-125 of _request
signed_headers(slf, headers, nonce, method, full_path, data) ==
    LET h1 == Put(headers, "KC-API-TIMESTAMP", <<"str", nonce>>)
        h2 == Put(h1, "KC-API-SIGN",
                  generate_signature(slf, nonce, method, full_path, data))
        h3 == Put(h2, "KC-API-KEY", slf.API_KEY)
        h4 == Put(h3, "KC-API-PASSPHRASE", generate_passphrase(slf))
    IN  Put(h4, "KC-API-KEY-VERSION", Str("2"))

\* headers = kwargs.get('headers', self.DEFAULT_HEADERS): no caller of the
\* module passes headers, so the dict written to is the class attribute
request_headers_object(class_headers) == class_headers

\* what _request hands to requests.request at time t
request(slf, class_headers, t, method, path, obj) ==
    LET data == JsonDumps(obj)
        full_path == create_path(path, "")
        headers == request_headers_object(class_headers)
    IN  [method |-> method, url |-> create_url(full_path), data |-> data,
         headers |-> signed_headers(slf, headers, t, method, full_path, data)]

KucoinAPIException(resp) ==
    [kind |-> "raise", exc |-> "KucoinAPIException",
     value |-> <<"response", resp>>]

KucoinRequestException(text) ==
    [kind |-> "raise", exc |-> "KucoinRequestException",
     value |-> <<"str", "Invalid Response: ", text>>]

TypeError == [kind |-> "raise", exc |-> "TypeError", value |-> None]

Return(v) == [kind |-> "return", exc |-> "", value |-> v]

RECURSIVE LeadingDigit(_)
LeadingDigit(n) == IF n < 10 THEN n ELSE LeadingDigit(n \div 10)

\* str(response.status_code).startswith('2')
StartsWith2(status_code) == LeadingDigit(status_code) = 2

handle_response_parsed(resp, res) ==
    IF "code" \in DOMAIN res /\ res["code"] # Str("200000")
    THEN KucoinAPIException(resp)
    ELSE IF "success" \in DOMAIN res /\ ~Truthy(res["success"])
    THEN KucoinAPIException(resp)
    ELSE IF "data" \in DOMAIN res
    THEN Return(res["data"])
    ELSE Return(Dict(res))

\* handle_response with the body parsed before the status is looked at
handle_response_parse_first(resp) ==
    IF resp.text[1] # "json"
    THEN KucoinRequestException(resp.text)
    ELSE IF ~StartsWith2(resp.status_code)
    THEN KucoinAPIException(resp)
    ELSE handle_response_parsed(resp, resp.text[2])

handle_response(resp) ==
    IF ~StartsWith2(resp.status_code)
    THEN KucoinAPIException(resp)
    ELSE IF resp.text[1] # "json"
    THEN KucoinRequestException(resp.text)
    ELSE handle_response_parsed(resp, resp.text[2])

----------------------------------------------------------------------------
(* clients/perp.py: the order dicts *)

AddIf(d, cond, k, v) == IF Truthy(cond) THEN Put(d, k, v) ELSE d

\* common_fields with remark set without the "if remark" guard
common_fields_remark_always(base, a) ==
    LET o1 == AddIf(base, a.client_oid, "clientOid", a.client_oid)
        o2 == AddIf(o1, a.leverage, "leverage", a.leverage)
        o3 == Put(o2, "remark", a.remark)
        o4 == AddIf(o3, a.stop, "stop", a.stop)
        o5 == AddIf(o4, a.stop_price, "stopPrice", a.stop_price)
        o6 == AddIf(o5, a.stop_price_type, "stopPriceType", a.stop_price_type)
        o7 == AddIf(o6, a.reduce_only, "reduceOnly", a.reduce_only)
        o8 == AddIf(o7, a.close_order, "closeOrder", a.close_order)
    IN  AddIf(o8, a.force_hold, "forceHold", a.force_hold)

\* lines 292-309, shared by both public methods (235-252)
common_fields(base, a) ==
    LET o1 == AddIf(base, a.client_oid, "clientOid", a.client_oid)
        o2 == AddIf(o1, a.leverage, "leverage", a.leverage)
        o3 == AddIf(o2, a.remark, "remark", a.remark)
        o4 == AddIf(o3, a.stop, "stop", a.stop)
        o5 == AddIf(o4, a.stop_price, "stopPrice", a.stop_price)
        o6 == AddIf(o5, a.stop_price_type, "stopPriceType", a.stop_price_type)
        o7 == AddIf(o6, a.reduce_only, "reduceOnly", a.reduce_only)
        o8 == AddIf(o7, a.close_order, "closeOrder", a.close_order)
    IN  AddIf(o8, a.force_hold, "forceHold", a.force_hold)

limit_order(a) ==
    LET base == [x \in {"symbol", "side", "type", "price", "size"} |->
                   CASE x = "symbol" -> Upper(a.symbol)
                     [] x = "side"   -> Lower(a.side)
                     [] x = "type"   -> Str("limit")
                     [] x = "price"  -> a.price
                     [] x = "size"   -> a.size]
        o1 == common_fields(base, a)
        o2 == AddIf(o1, a.hidden, "hidden", a.hidden)
        o3 == AddIf(o2, a.iceberg, "iceberg", a.iceberg)
    IN  AddIf(o3, a.iceberg, "visible_size", a.visible_size)

market_order(a) ==
    LET base == [x \in {"symbol", "side", "type", "size"} |->
                   CASE x = "symbol" -> Upper(a.symbol)
                     [] x = "side"   -> Lower(a.side)
                     [] x = "type"   -> Str("market")
                     [] x = "size"   -> a.size]
    IN  common_fields(base, a)

\* the four checks create_limit_order runs first
limit_checks(a) ==
    <<validate_time_in_force(a.time_in_force),
      validate_post_only(a.post_only, a.time_in_force),
      validate_hidden_and_iceberg(a.hidden, a.iceberg),
      validate_iceberg(a.iceberg, a.visible_size)>>

\* the four checks _create_order runs first
create_order_checks(o, amount, stop_loss_price, take_profit_price) ==
    <<validate_side(o["side"]),
      validate_stop(Get(o, "stop"), Get(o, "stopPrice"),
                    Get(o, "stopPriceType")),
      validate_stop_loss_take_profit(Get(o, "stop"), stop_loss_price,
                                     take_profit_price),
      validate_amount_size(amount, Get(o, "size"))>>

\* round(x) of Python 3 (ties to even), for n/d with d > 0
RatRound(a) ==
    LET f == a[2] \div a[3]
        twice == 2 * (a[2] % a[3])
    IN  IF twice < a[3] THEN f
        ELSE IF twice > a[3] THEN f + 1
        ELSE IF f % 2 = 0 THEN f ELSE f + 1

\* size_scaled with round() in place of int()
size_scaled_rounded(amount, multiplier) ==
    Num(RatRound(RatMul(amount, RatMul(Num(1, 1), RatInv(multiplier)))), 1)

\* int(amount * (1 / multiplier))
size_scaled(amount, multiplier) ==
    Num(RatTrunc(RatMul(amount, RatMul(Num(1, 1), RatInv(multiplier)))), 1)

\* amount // multiplier
size_floordiv(amount, multiplier) ==
    Num(RatFloor(RatMul(amount, RatInv(multiplier))), 1)

\* lines 159-168; the "size is None" raise cannot happen
compute_size(amount, multiplier) ==
    IF RatGeq(amount, Num(1, 1)) /\ RatLess(multiplier, Num(1, 1))
    THEN size_scaled(amount, multiplier)
    ELSE size_floordiv(amount, multiplier)

\* stop_loss_order with the trigger direction of the take-profit order
stop_loss_order_same_direction(o, stop_loss_price, oid) ==
    LET o1 == Put(o, "clientOid", oid)
        o2 == Put(o1, "side", SIDE_MAPPING[o["side"][2]])
        o3 == Put(o2, "stop",
                  IF o["side"] = Str("buy") THEN Str("up") ELSE Str("down"))
        o4 == Put(o3, "stopPrice", stop_loss_price)
        o5 == Put(o4, "stopPriceType", Str("TP"))
    IN  Put(o5, "reduceOnly", Bool(TRUE))

stop_loss_order(o, stop_loss_price, oid) ==
    LET o1 == Put(o, "clientOid", oid)
        o2 == Put(o1, "side", SIDE_MAPPING[o["side"][2]])
        o3 == Put(o2, "stop",
                  IF o["side"] = Str("buy") THEN Str("down") ELSE Str("up"))
        o4 == Put(o3, "stopPrice", stop_loss_price)
        o5 == Put(o4, "stopPriceType", Str("TP"))
    IN  Put(o5, "reduceOnly", Bool(TRUE))

take_profit_order(o, take_profit_price, oid) ==
    LET o1 == Put(o, "clientOid", oid)
        o2 == Put(o1, "side", SIDE_MAPPING[o["side"][2]])
        o3 == Put(o2, "stop",
                  IF o["side"] = Str("buy") THEN Str("up") ELSE Str("down"))
        o4 == Put(o3, "stopPrice", take_profit_price)
        o5 == Put(o4, "stopPriceType", Str("TP"))
    IN  Put(o5, "reduceOnly", Bool(TRUE))

----------------------------------------------------------------------------
(* The exchange: the responses it may give *)

Amounts == {Num(n, d) : n \in 1..MaxAmountNum, d \in {1, 2}}
Multipliers == {Num(p, q) : p \in 1..MaxMultNum, q \in {1, 10}}

\* The pairs on which the binary64 evaluation of lines 161-164 equals the
\* exact one, within Amounts and Multipliers (0.5 // 0.1 evaluates to 4.0,
\* not 5: the pairs with both values below 1 are left out).
FloatExact(amount, multiplier) ==
    RatGeq(amount, Num(1, 1)) \/ RatGeq(multiplier, Num(1, 1))

OrderData == {Dict([orderId |-> Str("5bd6e9286d99522a52e458de")])}

ContractData(amount) ==
    {Dict([symbol |-> Str("XBTUSDTM"), multiplier |-> m]) :
        m \in {x \in Multipliers : FloatExact(amount, x)}}
    \cup {Dict([symbol |-> Str("XBTUSDTM")])}

Response(status_code, text) == [status_code |-> status_code, text |-> text]

\* one response per way _handle_response can end
FlowResponses(datas) ==
    {Response(500, Garbage), Response(200, Garbage),
     Response(200, JsonDumps([code |-> Str("400001")])),
     Response(200, JsonDumps([success |-> Bool(FALSE)])),
     Response(200, JsonDumps([code |-> Str("200000")]))}
    \cup {Response(200, JsonDumps([code |-> Str("200000"), data |-> d])) :
            d \in datas}

\* every response envelope over the three fields, for _handle_response alone
FieldValues(k) ==
    CASE k = "code"    -> {Str("200000"), Str("400001")}
      [] k = "success" -> {Bool(TRUE), Bool(FALSE)}
      [] k = "data"    -> OrderData \cup {Dict(<<>>)}

Envelopes ==
    UNION {{f \in [K -> UNION {FieldValues(k) : k \in K}] :
              \A k \in K : f[k] \in FieldValues(k)} :
           K \in SUBSET {"code", "success", "data"}}

Statuses == {200, 201, 302, 404, 500}

AllResponses ==
    {Response(st, t) : st \in Statuses,
                       t \in {Garbage} \cup {JsonDumps(e) : e \in Envelopes}}

----------------------------------------------------------------------------
(* Client._create_order, split at its blocking requests *)

\* self._request(method, path, data=obj) up to the call of requests.request
Send(method, path, obj) ==
    LET req == request(self, DEFAULT_HEADERS, now, method, path, obj)
    IN  /\ wire' = Append(wire, req)
        /\ DEFAULT_HEADERS' = req.headers
        /\ now' = now + 1

\* next_stage with the take-profit order submitted before the stop-loss order
next_stage_take_profit_first(stage, out, a) ==
    IF out.kind = "raise" THEN "raised"
    ELSE CASE stage = "contract_info" -> "primary"
           [] stage = "primary" ->
                IF Truthy(a.take_profit_price) THEN "take_profit"
                ELSE IF Truthy(a.stop_loss_price) THEN "stop_loss"
                ELSE "returned"
           [] stage = "take_profit" ->
                IF Truthy(a.stop_loss_price) THEN "stop_loss"
                ELSE "returned"
           [] stage = "stop_loss" -> "returned"

\* next_stage with a failed stop-loss submission swallowed (try/except: pass)
next_stage_swallow(stage, out, a) ==
    IF out.kind = "raise" /\ stage # "stop_loss" THEN "raised"
    ELSE CASE stage = "contract_info" -> "primary"
           [] stage = "primary" ->
                IF Truthy(a.stop_loss_price) THEN "stop_loss"
                ELSE IF Truthy(a.take_profit_price) THEN "take_profit"
                ELSE "returned"
           [] stage = "stop_loss" ->
                IF Truthy(a.take_profit_price) THEN "take_profit"
                ELSE "returned"
           [] stage = "take_profit" -> "returned"

\* Where _create_order goes once the request of `stage` ended as `out`:
\* no try/except surrounds a _request call, and the requests follow each
\* other as lines 157-192 place them.
next_stage(stage, out, a) ==
    IF out.kind = "raise" THEN "raised"
    ELSE CASE stage = "contract_info" -> "primary"
           [] stage = "primary" ->
                IF Truthy(a.stop_loss_price) THEN "stop_loss"
                ELSE IF Truthy(a.take_profit_price) THEN "take_profit"
                ELSE "returned"
           [] stage = "stop_loss" ->
                IF Truthy(a.take_profit_price) THEN "take_profit"
                ELSE "returned"
           [] stage = "take_profit" -> "returned"

\* what return new_order_response gives back
returned_value(nor) == nor

\* the step into `nxt`: o is the order dict, nor new_order_response, out the
\* outcome of the request that just ended
Enter(nxt, o, nor, out) ==
    CASE nxt = "raised" ->
           /\ pc' = "raised"
           /\ result' = out
           /\ UNCHANGED <<wire, DEFAULT_HEADERS, now, uuid_count>>
      [] nxt = "primary" ->
           /\ pc' = "primary"
           /\ Send("POST", "orders", o)
           /\ UNCHANGED <<result, uuid_count>>
      [] nxt = "stop_loss" ->
           /\ pc' = "stop_loss"
           /\ Send("POST", "orders",
                   stop_loss_order(o, args.stop_loss_price,
                                   flat_uuid(uuid_count + 1)))
           /\ uuid_count' = uuid_count + 1
           /\ UNCHANGED result
      [] nxt = "take_profit" ->
           /\ pc' = "take_profit"
           /\ Send("POST", "orders",
                   take_profit_order(o, args.take_profit_price,
                                     flat_uuid(uuid_count + 1)))
           /\ uuid_count' = uuid_count + 1
           /\ UNCHANGED result
      [] nxt = "returned" ->
           /\ pc' = "returned"
           /\ result' = Return(returned_value(nor))
           /\ UNCHANGED <<wire, DEFAULT_HEADERS, now, uuid_count>>

\* lines 142-170: the checks, the clientOid, and the first request
CreateOrderBegin(o, a) ==
    LET err == FirstRaised(create_order_checks(o, a.amount, a.stop_loss_price,
                                               a.take_profit_price))
        fresh == Get(o, "clientOid") = None
        o1 == IF fresh THEN Put(o, "clientOid", flat_uuid(uuid_count + 1))
              ELSE o
    IN  IF err.kind = "raise"
        THEN /\ pc' = "raised"
             /\ result' = err
             /\ order' = o
             /\ UNCHANGED <<wire, DEFAULT_HEADERS, now, uuid_count>>
        ELSE /\ order' = o1
             /\ uuid_count' = IF fresh THEN uuid_count + 1 ELSE uuid_count
             /\ UNCHANGED result
             /\ IF Truthy(a.amount)
                THEN /\ pc' = "contract_info"
                     /\ Send("GET", "contracts/" \o o1["symbol"][2], <<>>)
                ELSE /\ pc' = "primary"
                     /\ Send("POST", "orders", o1)

CreateLimitOrder ==
    /\ pc = "start"
    /\ args.kind = "limit"
    /\ LET err == FirstRaised(limit_checks(args))
       IN  IF err.kind = "raise"
           THEN /\ pc' = "raised"
                /\ result' = err
                /\ UNCHANGED <<order, wire, DEFAULT_HEADERS, now, uuid_count>>
           ELSE CreateOrderBegin(limit_order(args), args)
    /\ UNCHANGED <<self, args, symbol_info, new_order_response, replies,
                   response>>

CreateMarketOrder ==
    /\ pc = "start"
    /\ args.kind = "market"
    /\ CreateOrderBegin(market_order(args), args)
    /\ UNCHANGED <<self, args, symbol_info, new_order_response, replies,
                   response>>

\* contract_info returns into lines 158-170
ContractInfoReturns ==
    /\ pc = "contract_info"
    /\ \E r \in FlowResponses(ContractData(args.amount)) :
         LET out == handle_response(r)
             nxt == next_stage("contract_info", out, args)
             info == out.value
             multiplier == IF info[1] = "dict"
                           THEN Get(info[2], "multiplier") ELSE None
             o1 == IF multiplier = None THEN order
                   ELSE Put(order, "size",
                            compute_size(args.amount, multiplier))
         IN  /\ replies' = Append(replies, out)
             /\ IF nxt = "raised"
                THEN /\ Enter("raised", order, None, out)
                     /\ UNCHANGED <<order, symbol_info>>
                ELSE /\ symbol_info' = info
                     /\ order' = o1
                     /\ IF multiplier = None
                        THEN Enter("raised", order, None, TypeError)
                        ELSE Enter(nxt, o1, None, out)
    /\ UNCHANGED <<self, args, new_order_response, response>>

\* line 170 returns into lines 172-192
PrimaryReturns ==
    /\ pc = "primary"
    /\ \E r \in FlowResponses(OrderData) :
         LET out == handle_response(r)
             nxt == next_stage("primary", out, args)
         IN  /\ replies' = Append(replies, out)
             /\ new_order_response' =
                   IF nxt = "raised" THEN new_order_response ELSE out.value
             /\ Enter(nxt, order, out.value, out)
    /\ UNCHANGED <<self, args, order, symbol_info, response>>

\* line 180 returns into lines 182-192
StopLossReturns ==
    /\ pc = "stop_loss"
    /\ \E r \in FlowResponses(OrderData) :
         LET out == handle_response(r)
             nxt == next_stage("stop_loss", out, args)
         IN  /\ replies' = Append(replies, out)
             /\ Enter(nxt, order, new_order_response, out)
    /\ UNCHANGED <<self, args, order, symbol_info, new_order_response,
                   response>>

\* line 190 returns into line 192
TakeProfitReturns ==
    /\ pc = "take_profit"
    /\ \E r \in FlowResponses(OrderData) :
         LET out == handle_response(r)
             nxt == next_stage("take_profit", out, args)
         IN  /\ replies' = Append(replies, out)
             /\ Enter(nxt, order, new_order_response, out)
    /\ UNCHANGED <<self, args, order, symbol_info, new_order_response,
                   response>>

Next ==
    \/ CreateLimitOrder
    \/ CreateMarketOrder
    \/ ContractInfoReturns
    \/ PrimaryReturns
    \/ StopLossReturns
    \/ TakeProfitReturns

----------------------------------------------------------------------------
(* The calls checked *)

Client1 == Client(Str("key-1"), "secret-1", "pass-1")
Client2 == Client(Str("key-2"), "secret-2", "pass-2")

Unset == {None}
Flag == {None, Bool(TRUE)}

\* calls that vary what the validators read
ValidationCalls ==
    LET limit ==
          [kind : {"limit"},
           side : {Str("buy"), Str("SELL"), Str("hold")},
           price : {Str("100")}, symbol : {Str("xbtusdtm")},
           leverage : {Str("5")},
           amount : {None, Num(2, 1)}, size : {None, Num(1, 1)},
           client_oid : Unset, remark : Unset,
           stop : {None, Str("down"), Str("left")},
           stop_price : {None, Str("90")},
           stop_price_type : {None, Str("TP")},
           reduce_only : Unset, close_order : Unset, force_hold : Unset,
           time_in_force : {None, Str("GTC"), Str("IOC"), Str("FOK")},
           post_only : Flag, hidden : Flag, iceberg : Flag,
           visible_size : {Str(""), Str("1")},
           stop_loss_price : {None, Num(100, 1)},
           take_profit_price : {None, Num(50, 1)}]
        market ==
          [kind : {"market"},
           side : {Str("buy"), Str("SELL"), Str("hold")},
           price : Unset, symbol : {Str("xbtusdtm")},
           leverage : {Str("5")},
           amount : {None, Num(2, 1)}, size : {None, Num(1, 1)},
           client_oid : Unset, remark : Unset,
           stop : {None, Str("down"), Str("left")},
           stop_price : {None, Str("90")},
           stop_price_type : {None, Str("TP")},
           reduce_only : Unset, close_order : Unset, force_hold : Unset,
           time_in_force : Unset, post_only : Unset, hidden : Unset,
           iceberg : Unset, visible_size : Unset,
           stop_loss_price : {None, Num(100, 1)},
           take_profit_price : {None, Num(50, 1)}]
    IN  limit \cup market

InitCall(calls) ==
    /\ pc = "start"
    /\ self = Client1
    /\ args \in calls
    /\ order = <<>>
    /\ symbol_info = None
    /\ new_order_response = None
    /\ wire = <<>>
    /\ replies = <<>>
    /\ result = NoError
    /\ DEFAULT_HEADERS = DEFAULT_HEADERS_0
    /\ now = 0
    /\ uuid_count = 0
    /\ response = None

Init == InitCall(ValidationCalls)

Spec == Init /\ [][Next]_vars

\* calls that vary which optional fields the caller supplies
PayloadCalls ==
    LET limit ==
          [kind : {"limit"}, side : {Str("buy")},
           price : {Str("100")}, symbol : {Str("xbtusdtm")},
           leverage : {None, Str("5")},
           amount : {None, Num(2, 1)}, size : {None, Num(1, 1)},
           client_oid : {None, Str("my-oid")}, remark : {None, Str("note")},
           stop : {None, Str("down")},
           stop_price : {None, Str("90")},
           stop_price_type : {None, Str("TP")},
           reduce_only : Flag, close_order : Flag, force_hold : Flag,
           time_in_force : Unset, post_only : Unset,
           hidden : Flag, iceberg : Flag,
           visible_size : {Str(""), Str("1")},
           stop_loss_price : {None, Num(100, 1)},
           take_profit_price : {None, Num(50, 1)}]
        market ==
          [kind : {"market"}, side : {Str("buy")},
           price : Unset, symbol : {Str("xbtusdtm")},
           leverage : {None, Str("5")},
           amount : {None, Num(2, 1)}, size : {None, Num(1, 1)},
           client_oid : {None, Str("my-oid")}, remark : {None, Str("note")},
           stop : {None, Str("down")},
           stop_price : {None, Str("90")},
           stop_price_type : {None, Str("TP")},
           reduce_only : Flag, close_order : Flag, force_hold : Flag,
           time_in_force : Unset, post_only : Unset, hidden : Unset,
           iceberg : Unset, visible_size : Unset,
           stop_loss_price : {None, Num(100, 1)},
           take_profit_price : {None, Num(50, 1)}]
    IN  {a \in limit \cup market :
           /\ (a.stop_loss_price = None) = (a.take_profit_price = None)
           /\ ~(a.amount # None /\ a.size # None)}

InitPayload == InitCall(PayloadCalls)

SpecPayload == InitPayload /\ [][Next]_vars

\* calls that vary the notional amount
SizeCalls ==
    [kind : {"limit", "market"}, side : {Str("buy")},
     price : {Str("100")}, symbol : {Str("xbtusdtm")},
     leverage : {Str("5")},
     amount : Amounts, size : Unset,
     client_oid : Unset, remark : Unset,
     stop : Unset, stop_price : Unset, stop_price_type : Unset,
     reduce_only : Unset, close_order : Unset, force_hold : Unset,
     time_in_force : Unset, post_only : Unset, hidden : Unset,
     iceberg : Unset, visible_size : {Str("")},
     stop_loss_price : {None, Num(100, 1)},
     take_profit_price : {None, Num(50, 1)}]

InitSize == InitCall(SizeCalls)

SpecSize == InitSize /\ [][Next]_vars

----------------------------------------------------------------------------
(* Client._handle_response on its own *)

HandleResponse ==
    /\ pc = "handle_response"
    /\ result' = handle_response(response)
    /\ pc' = "handled"
    /\ UNCHANGED <<self, args, order, symbol_info, new_order_response, wire,
                   replies, DEFAULT_HEADERS, now, uuid_count, response>>

InitResponse ==
    /\ pc = "handle_response"
    /\ self = Client1
    /\ args = None
    /\ order = <<>>
    /\ symbol_info = None
    /\ new_order_response = None
    /\ wire = <<>>
    /\ replies = <<>>
    /\ result = NoError
    /\ DEFAULT_HEADERS = DEFAULT_HEADERS_0
    /\ now = 0
    /\ uuid_count = 0
    /\ response \in AllResponses

NextResponse == HandleResponse

SpecResponse == InitResponse /\ [][NextResponse]_vars

----------------------------------------------------------------------------
(* Client._request called in sequence on several Client instances *)

Clients == {Client1, Client2}

RequestInputs ==
    {<<"GET", "contracts/XBTUSDTM", <<>>>>,
     <<"POST", "orders", [symbol |-> Str("XBTUSDTM"), side |-> Str("buy")]>>}

\* c._request(method, path, data=obj) up to the call of requests.request
RequestCall ==
    /\ pc = "idle"
    /\ Len(wire) < MaxRequests
    /\ \E c \in Clients, i \in RequestInputs :
         LET req == request(c, DEFAULT_HEADERS, now, i[1], i[2], i[3])
         IN  /\ self' = c
             /\ wire' = Append(wire, req)
             /\ DEFAULT_HEADERS' = req.headers
             /\ now' = now + 1
    /\ pc' = "request"
    /\ UNCHANGED <<args, order, symbol_info, new_order_response, replies,
                   result, uuid_count, response>>

\* the response arrives and _handle_response ends the call
RequestReturns ==
    /\ pc = "request"
    /\ \E r \in FlowResponses(OrderData) :
         LET out == handle_response(r)
         IN  /\ replies' = Append(replies, out)
             /\ result' = out
    /\ pc' = "idle"
    /\ UNCHANGED <<self, args, order, symbol_info, new_order_response, wire,
                   DEFAULT_HEADERS, now, uuid_count, response>>

InitHeaders ==
    /\ pc = "idle"
    /\ self = Client1
    /\ args = None
    /\ order = <<>>
    /\ symbol_info = None
    /\ new_order_response = None
    /\ wire = <<>>
    /\ replies = <<>>
    /\ result = NoError
    /\ DEFAULT_HEADERS = DEFAULT_HEADERS_0
    /\ now = 0
    /\ uuid_count = 0
    /\ response = None

NextHeaders == RequestCall \/ RequestReturns

SpecHeaders == InitHeaders /\ [][NextHeaders]_vars

----------------------------------------------------------------------------
(* Vocabulary of the properties *)

\* the order dict request i carries
Payload(i) == wire[i].data[2]

\* a parameter the caller supplied: neither None nor empty
Supplied(v) == Truthy(v)

ValidationErrorRaised ==
    pc = "raised" /\ result.exc = "OrderParameterValidationException"

\* positions of the requests of one call
PrimaryIndex == IF Supplied(args.amount) THEN 2 ELSE 1
StopLossIndex == PrimaryIndex + 1
TakeProfitIndex ==
    PrimaryIndex + (IF Supplied(args.stop_loss_price) THEN 2 ELSE 1)

OrdersUrl == "https://api-futures.kucoin.com/api/v1/orders"
ContractsUrl(symbol) ==
    "https://api-futures.kucoin.com/api/v1/contracts/" \o symbol

Inverse(side) == IF side = Str("buy") THEN Str("sell") ELSE Str("buy")

\* the Validator checks of the specification, on the arguments of a call
ViolatesValidator(a) ==
    \/ Lower(a.side) \notin {Str("buy"), Str("sell")}
    \/ /\ Supplied(a.stop)
       /\ \/ a.stop \notin {Str("down"), Str("up")}
          \/ a.stop_price_type \notin {Str("TP"), Str("MP"), Str("IP")}
          \/ ~Supplied(a.stop_price)
    \/ /\ Supplied(a.stop)
       /\ Supplied(a.stop_loss_price) \/ Supplied(a.take_profit_price)
    \/ Supplied(a.amount) /\ Supplied(a.size)
    \/ /\ a.kind = "limit"
       /\ \/ /\ Supplied(a.time_in_force)
             /\ a.time_in_force \notin {Str("GTC"), Str("IOC")}
          \/ Supplied(a.post_only) /\ a.time_in_force # Str("GTC")
          \/ Supplied(a.hidden) /\ Supplied(a.iceberg)
          \/ Supplied(a.iceberg) /\ ~Supplied(a.visible_size)

RequiredKeys(kind) ==
    IF kind = "limit" THEN {"symbol", "side", "type", "price", "size"}
    ELSE {"symbol", "side", "type", "size"}

\* the parameter behind each optional payload key
KeyArgument(a) ==
    [clientOid |-> a.client_oid, leverage |-> a.leverage,
     remark |-> a.remark, stop |-> a.stop, stopPrice |-> a.stop_price,
     stopPriceType |-> a.stop_price_type, reduceOnly |-> a.reduce_only,
     closeOrder |-> a.close_order, forceHold |-> a.force_hold,
     hidden |-> a.hidden, iceberg |-> a.iceberg,
     visible_size |-> a.visible_size]

KeySupplied(a, k) ==
    k \in DOMAIN KeyArgument(a) /\ Supplied(KeyArgument(a)[k])

AllOptionalOmitted(a) ==
    /\ \A k \in DOMAIN KeyArgument(a) : ~Supplied(KeyArgument(a)[k])
    /\ ~Supplied(a.time_in_force) /\ ~Supplied(a.post_only)
    /\ ~Supplied(a.stop_loss_price) /\ ~Supplied(a.take_profit_price)

ConditionalKeys == {"stop", "stopPrice", "stopPriceType", "reduceOnly"}

\* method, url and trigger price of a request
Descr(req) == <<req.method, req.url, Get(req.data[2], "stopPrice")>>

\* the requests a fully successful call issues, in order
ExpectedRequests(a) ==
    LET get == IF Supplied(a.amount)
               THEN << <<"GET", ContractsUrl(Upper(a.symbol)[2]), None>> >>
               ELSE <<>>
        primary == << <<"POST", OrdersUrl,
                        IF Supplied(a.stop_price) THEN a.stop_price
                        ELSE None>> >>
        sl == IF Supplied(a.stop_loss_price)
              THEN << <<"POST", OrdersUrl, a.stop_loss_price>> >> ELSE <<>>
        tp == IF Supplied(a.take_profit_price)
              THEN << <<"POST", OrdersUrl, a.take_profit_price>> >> ELSE <<>>
    IN  get \o primary \o sl \o tp

Is2xx(status_code) == status_code \in 200..299

----------------------------------------------------------------------------
(* C1 *)

\* C1 (as claimed): a create_limit_order call with post_only true ends in a
\* parameter-validation error when time_in_force is not "GTC" (unset too),
\* and is not rejected by the post_only check when time_in_force is "GTC".
C1_PostOnlyRequiresGTC ==
    (pc # "start" /\ args.kind = "limit" /\ args.post_only = Bool(TRUE))
    => IF args.time_in_force = Str("GTC")
       THEN ~(ValidationErrorRaised /\ result.value = Str("post_only"))
       ELSE ValidationErrorRaised

----------------------------------------------------------------------------
(* C2 *)

\* C2 (as claimed): a call whose parameters violate a Validator check ends
\* in a parameter-validation error with no HTTP request issued.
C2_ViolationRaisesBeforeAnyRequest ==
    (pc # "start" /\ ViolatesValidator(args))
    => (ValidationErrorRaised /\ wire = <<>>)

----------------------------------------------------------------------------
(* C3 *)

\* C3 (as claimed): no optional field the caller did not supply appears in
\* a submitted order payload, and a limit order with every optional field
\* omitted is submitted with exactly the keys symbol, side, type, price, size.
C3_OnlySuppliedFields ==
    \A i \in DOMAIN wire :
      wire[i].method = "POST" =>
        /\ \A k \in (DOMAIN Payload(i)) \ RequiredKeys(args.kind) :
             KeySupplied(args, k)
        /\ (args.kind = "limit" /\ AllOptionalOmitted(args))
           => DOMAIN Payload(i) = RequiredKeys("limit")

\* C3 (amended): clientOid is in every submitted payload; apart from it, an
\* optional field the caller did not supply never appears in the primary
\* payload, and in a stop-loss or take-profit payload only stop, stopPrice,
\* stopPriceType and reduceOnly are added; a limit order with every optional
\* field omitted is submitted with exactly symbol, side, type, price, size
\* and clientOid.
C3_OnlySuppliedFieldsAndClientOid ==
    \A i \in DOMAIN wire :
      wire[i].method = "POST" =>
        LET added == IF i = PrimaryIndex THEN {"clientOid"}
                     ELSE {"clientOid"} \cup ConditionalKeys
        IN  /\ "clientOid" \in DOMAIN Payload(i)
            /\ \A k \in (DOMAIN Payload(i))
                          \ (RequiredKeys(args.kind) \cup added) :
                 KeySupplied(args, k)
            /\ (args.kind = "limit" /\ AllOptionalOmitted(args))
               => DOMAIN Payload(i) = RequiredKeys("limit") \cup {"clientOid"}

\* a limit order with every optional field omitted has been submitted
C3_Witness ==
    /\ pc = "primary"
    /\ args.kind = "limit"
    /\ AllOptionalOmitted(args)
    /\ DOMAIN Payload(PrimaryIndex) =
         {"symbol", "side", "type", "price", "size", "clientOid"}

----------------------------------------------------------------------------
(* C4 *)

\* C4 (as claimed): for every submitted order payload the caller supplied
\* exactly one of amount and size, the payload's size is not null and the
\* payload has no amount field.
C4_ExactlyOneOfAmountSize ==
    \A i \in DOMAIN wire :
      wire[i].method = "POST" =>
        /\ Supplied(args.amount) # Supplied(args.size)
        /\ "size" \in DOMAIN Payload(i)
        /\ Payload(i)["size"] # None
        /\ "amount" \notin DOMAIN Payload(i)

\* C4 (amended): for every submitted order payload the caller supplied at
\* most one of amount and size, the payload has no amount field and has a
\* size field, which is null exactly when the caller supplied neither.
C4_AtMostOneOfAmountSize ==
    \A i \in DOMAIN wire :
      wire[i].method = "POST" =>
        /\ ~(Supplied(args.amount) /\ Supplied(args.size))
        /\ "amount" \notin DOMAIN Payload(i)
        /\ "size" \in DOMAIN Payload(i)
        /\ (Payload(i)["size"] = None)
           = (~Supplied(args.amount) /\ ~Supplied(args.size))

\* an order whose size was computed from the amount has been submitted
C4_Witness ==
    /\ pc = "primary"
    /\ Supplied(args.amount)
    /\ Payload(PrimaryIndex)["size"] # None

----------------------------------------------------------------------------
(* C5 *)

\* C5: the stop-loss order submitted has the inverse side, stop "down" for a
\* buy and "up" for a sell, stopPrice = stop_loss_price, stopPriceType "TP"
\* and reduceOnly true; the take-profit order has the inverse side, stop
\* "up" for a buy and "down" for a sell, stopPrice = take_profit_price,
\* stopPriceType "TP" and reduceOnly true.
C5_ConditionalOrders ==
    LET s == Lower(args.side)
    IN  /\ (Supplied(args.stop_loss_price) /\ Len(wire) >= StopLossIndex)
           => LET o == Payload(StopLossIndex)
              IN  /\ s \in {Str("buy"), Str("sell")}
                  /\ o["side"] = Inverse(s)
                  /\ o["stop"] = IF s = Str("buy") THEN Str("down")
                                 ELSE Str("up")
                  /\ o["stopPrice"] = args.stop_loss_price
                  /\ o["stopPriceType"] = Str("TP")
                  /\ o["reduceOnly"] = Bool(TRUE)
        /\ (Supplied(args.take_profit_price) /\ Len(wire) >= TakeProfitIndex)
           => LET o == Payload(TakeProfitIndex)
              IN  /\ s \in {Str("buy"), Str("sell")}
                  /\ o["side"] = Inverse(s)
                  /\ o["stop"] = IF s = Str("buy") THEN Str("up")
                                 ELSE Str("down")
                  /\ o["stopPrice"] = args.take_profit_price
                  /\ o["stopPriceType"] = Str("TP")
                  /\ o["reduceOnly"] = Bool(TRUE)

\* a sell with both prices: both conditional orders have been submitted
C5_Witness ==
    /\ pc = "take_profit"
    /\ Lower(args.side) = Str("sell")
    /\ Supplied(args.stop_loss_price)
    /\ Len(wire) = TakeProfitIndex
    /\ Payload(StopLossIndex)["stop"] = Str("up")
    /\ Payload(TakeProfitIndex)["stop"] = Str("down")

----------------------------------------------------------------------------
(* C6 *)

\* C6: _handle_response ends in exactly one way: a non-2xx status raises
\* KucoinAPIException whatever the body; otherwise an unparsable body raises
\* KucoinRequestException; otherwise a code other than "200000" raises
\* KucoinAPIException; otherwise a false success raises KucoinAPIException;
\* otherwise the data field is returned when present, the whole body if not.
C6_ResponseOutcome ==
    pc = "handled" =>
      LET parsed == response.text[1] = "json"
          res == response.text[2]
          bad_code == "code" \in DOMAIN res /\ res["code"] # Str("200000")
          failed == "success" \in DOMAIN res /\ res["success"] = Bool(FALSE)
      IN  /\ ~Is2xx(response.status_code)
             => result = KucoinAPIException(response)
          /\ (Is2xx(response.status_code) /\ ~parsed)
             => /\ result.kind = "raise"
                /\ result.exc = "KucoinRequestException"
          /\ (Is2xx(response.status_code) /\ parsed /\ bad_code)
             => result = KucoinAPIException(response)
          /\ (Is2xx(response.status_code) /\ parsed /\ ~bad_code /\ failed)
             => result = KucoinAPIException(response)
          /\ (Is2xx(response.status_code) /\ parsed /\ ~bad_code /\ ~failed)
             => /\ result.kind = "return"
                /\ result.value = IF "data" \in DOMAIN res THEN res["data"]
                                  ELSE Dict(res)

\* a 2xx response with code "200000" and a data field gave back its data
C6_Witness ==
    /\ pc = "handled"
    /\ response.status_code = 200
    /\ response.text[1] = "json"
    /\ DOMAIN response.text[2] = {"code", "success", "data"}
    /\ result.kind = "return"
    /\ result.value = response.text[2]["data"]

----------------------------------------------------------------------------
(* C7 *)

\* C7 (as claimed): with an amount supplied, the size submitted is
\* round(amount / multiplier) when amount >= 1 and multiplier < 1, and
\* floor(amount / multiplier) otherwise.
C7_SizeRoundedOrFloored ==
    (Supplied(args.amount) /\ Len(wire) >= 2) =>
      LET a == args.amount
          m == symbol_info[2]["multiplier"]
          q == Num(a[2] * m[3], a[3] * m[2])
      IN  Payload(2)["size"] =
            IF RatGeq(a, Num(1, 1)) /\ RatLess(m, Num(1, 1))
            THEN Num(RatRound(q), 1)
            ELSE Num(RatFloor(q), 1)

\* C7 (amended): with an amount supplied, the size submitted is the integer
\* k with k * multiplier <= amount < (k + 1) * multiplier, in both branches:
\* the quotient is cut down to an integer, never rounded up.
C7_SizeFloored ==
    (Supplied(args.amount) /\ Len(wire) >= 2) =>
      LET a == args.amount
          m == symbol_info[2]["multiplier"]
          s == Payload(2)["size"]
      IN  /\ s[1] = "num"
          /\ s[3] = 1
          /\ s[2] * (m[2] * a[3]) <= a[2] * m[3]
          /\ a[2] * m[3] < (s[2] + 1) * (m[2] * a[3])

\* amount 2 at multiplier 0.3 was submitted as size 6 (2 / 0.3 = 6.67)
C7_Witness ==
    /\ pc = "primary"
    /\ args.amount = Num(2, 1)
    /\ symbol_info[2]["multiplier"] = Num(3, 10)
    /\ Payload(2)["size"] = Num(6, 1)

----------------------------------------------------------------------------
(* C8 *)

\* C8: the requests of one call are issued one after another in the order
\* contract GET (amount supplied), primary POST, stop-loss POST
\* (stop_loss_price supplied), take-profit POST (take_profit_price
\* supplied); a request is issued only when every earlier one has returned
\* successfully; a call that returns has issued all of them and returns the
\* primary order's response.
C8_RequestsInOrder ==
    pc # "start" =>
      LET expected == ExpectedRequests(args)
      IN  /\ Len(wire) <= Len(expected)
          /\ \A i \in DOMAIN wire : Descr(wire[i]) = expected[i]
          /\ Len(replies) \in {Len(wire) - 1, Len(wire)}
          /\ \A i \in 1..(Len(wire) - 1) :
               i \in DOMAIN replies /\ replies[i].kind = "return"
          /\ pc = "returned" =>
               /\ Len(wire) = Len(expected)
               /\ Len(wire) = 1 + (IF Supplied(args.amount) THEN 1 ELSE 0)
                     + (IF Supplied(args.stop_loss_price) THEN 1 ELSE 0)
                     + (IF Supplied(args.take_profit_price) THEN 1 ELSE 0)
               /\ \A i \in DOMAIN wire : replies[i].kind = "return"
               /\ result = Return(replies[PrimaryIndex].value)

\* a call with amount, stop-loss and take-profit returned after 4 requests
C8_Witness ==
    /\ pc = "returned"
    /\ Supplied(args.amount)
    /\ Len(wire) = 4
    /\ result.kind = "return"

----------------------------------------------------------------------------
(* C9 *)

\* C9: a failed request is the last request of its call: the call raises
\* the very error the request ended with, nothing is issued after it (no
\* retry, no later order, no cancelling request), and the requests issued
\* before it stay issued.
C9_FailureSurfaces ==
    /\ \A i \in DOMAIN replies :
         replies[i].kind = "raise" =>
           /\ i = Len(replies)
           /\ i = Len(wire)
           /\ pc = "raised"
           /\ result = replies[i]
    /\ \A i \in DOMAIN wire :
         \/ wire[i].method = "POST" /\ wire[i].url = OrdersUrl
         \/ wire[i].method = "GET" /\ i = 1

\* the stop-loss submission failed after the primary order was submitted
C9_Witness ==
    /\ pc = "raised"
    /\ Len(wire) = StopLossIndex
    /\ Supplied(args.stop_loss_price)
    /\ Supplied(args.take_profit_price)
    /\ replies[PrimaryIndex].kind = "return"
    /\ replies[StopLossIndex].kind = "raise"
    /\ result.exc = "KucoinAPIException"

----------------------------------------------------------------------------
(* C10 *)

\* C10 (as claimed): whatever _request calls were made on whatever Client
\* instances, the class-level DEFAULT_HEADERS holds exactly the entries
\* accept and content-type.
C10_DefaultHeadersUntouched ==
    /\ DOMAIN DEFAULT_HEADERS = {"accept", "content-type"}
    /\ DEFAULT_HEADERS = DEFAULT_HEADERS_0

====
